---- MODULE Spec2Model ----
(***************************************************************************)
(* A model of careerfind's crawl pipeline (src/carrerfind.go): the launch  *)
(* loop of extractEmails, the per-page workers running processPage, the    *)
(* colly collector's asynchronous fetch with its OnError / OnHTML          *)
(* callbacks, the mutex-protected results store, and the email extraction  *)
(* functions.                                                              *)
(*                                                                         *)
(* src/carrerfind.go holds two definitions of processPage: lines 240-300   *)
(* (retry in OnError, storeResults, mailto links) and lines 478-544 (no    *)
(* retry, c.Wait() before returning).  The variable `variant` says which   *)
(* of the two a build contains: "A" is lines 240-300, "B" is lines 478-544.*)
(*                                                                         *)
(* Both build the collector with colly.Async(true) (lines 243 and 481): a  *)
(* c.Visit call returns nil as soon as the request is queued, the fetch    *)
(* runs in a goroutine of the collector, a fetch failure is reported to    *)
(* the OnError callback only, and c.Wait() (line 542) is what waits for    *)
(* the queued requests.                                                    *)
(***************************************************************************)
EXTENDS Integers, Sequences, FiniteSets, TLC

(***************************************************************************)
(* Bounds of the model.                                                    *)
(***************************************************************************)
MaxPages == 2          \* longest page list handed to extractEmails
MaxFetch == 3          \* cap on the fetches of one page (the retry chain is unbounded)
MaxRetriesCfg == 1     \* largest configured config.MaxRetries
MaxTextLen == 7        \* longest text drawn from the whole alphabet

(***************************************************************************)
(* Characters and texts.  A text is a sequence of one-character strings.   *)
(***************************************************************************)
Letters ==
    {"a","b","c","d","e","f","g","h","i","j","k","l","m",
     "n","o","p","q","r","s","t","u","v","w","x","y","z",
     "A","B","C","D","E","F","G","H","I","J","K","L","M",
     "N","O","P","Q","R","S","T","U","V","W","X","Y","Z"}

Digits == {"0","1","2","3","4","5","6","7","8","9"}

\* [a-zA-Z0-9._%+-]
LocalChars == Letters \cup Digits \cup {".", "_", "%", "+", "-"}

\* [a-zA-Z0-9.-]
DomainChars == Letters \cup Digits \cup {".", "-"}

\* First index >= i of t whose character is not in cls (Len(t)+1 if none).
RECURSIVE RunEnd(_, _, _)
RunEnd(t, i, cls) ==
    IF i > Len(t) \/ t[i] \notin cls THEN i ELSE RunEnd(t, i + 1, cls)

\* The dots of a domain run t[from..to-1] that can start the `\.[a-zA-Z]{2,}`
\* tail of the pattern: at least one domain character before, two letters after.
TldDots(t, from, to) ==
    { q \in (from + 1)..(to - 1) :
        /\ t[q] = "."
        /\ q + 2 <= Len(t)
        /\ t[q + 1] \in Letters
        /\ t[q + 2] \in Letters }

Max(S) == CHOOSE x \in S : \A y \in S : y <= x

\* Index of the last character of the match of
\*   [a-zA-Z0-9._%+-]+@[a-zA-Z0-9.-]+\.[a-zA-Z]{2,}
\* that starts at index i of t (greedy, leftmost-first), 0 if there is none.
MatchEnd(t, i) ==
    LET at == RunEnd(t, i, LocalChars)
    IN  IF at = i \/ at > Len(t) \/ t[at] # "@" THEN 0
        ELSE LET dEnd == RunEnd(t, at + 1, DomainChars)
                 dots == TldDots(t, at + 1, dEnd)
             IN  IF dots = {} THEN 0
                 ELSE RunEnd(t, Max(dots) + 1, Letters) - 1

\* regex.FindAllString(text, -1): the successive non-overlapping matches.
RECURSIVE FindAllFrom(_, _)
FindAllFrom(t, pos) ==
    IF pos > Len(t) THEN << >>
    ELSE LET e == MatchEnd(t, pos)
         IN  IF e = 0 THEN FindAllFrom(t, pos + 1)
             ELSE << SubSeq(t, pos, e) >> \o FindAllFrom(t, e + 1)

FindAllString(t) == FindAllFrom(t, 1)

\* emailRegex.MatchString of the anchored pattern ^...$ : the whole string.
isValidEmail(email) ==
    \E at \in 2..Len(email) :
        /\ email[at] = "@"
        /\ \A k \in 1..(at - 1) : email[k] \in LocalChars
        /\ \E q \in (at + 2)..(Len(email) - 2) :
              /\ email[q] = "."
              /\ \A k \in (at + 1)..(q - 1) : email[k] \in DomainChars
              /\ \A k \in (q + 1)..Len(email) : email[k] \in Letters

InSeq(x, s) == \E k \in 1..Len(s) : s[k] = x

\* A loop that keeps every valid match, seen before or not.
RECURSIVE extractLoopKeepAll(_, _)
extractLoopKeepAll(emails, result) ==
    IF emails = << >> THEN result
    ELSE extractLoopKeepAll(Tail(emails),
                            IF isValidEmail(Head(emails))
                            THEN Append(result, Head(emails)) ELSE result)

\* The loop of extractEmailsFromText: keep a match when it is valid and new.
RECURSIVE extractLoop(_, _)
extractLoop(emails, result) ==
    IF emails = << >> THEN result
    ELSE extractLoop(Tail(emails),
                     IF isValidEmail(Head(emails)) /\ ~InSeq(Head(emails), result)
                     THEN Append(result, Head(emails)) ELSE result)

extractEmailsFromText(text) == extractLoop(FindAllString(text), << >>)

\* The loop of storeResults: keep the first occurrence of every email.
RECURSIVE filterLoop(_, _)
filterLoop(emails, filteredEmails) ==
    IF emails = << >> THEN filteredEmails
    ELSE filterLoop(Tail(emails),
                    IF ~InSeq(Head(emails), filteredEmails)
                    THEN Append(filteredEmails, Head(emails)) ELSE filteredEmails)

\* strings.HasPrefix, strings.TrimPrefix and strings.Split(s, sep)[0].
HasPrefix(s, prefix) ==
    Len(s) >= Len(prefix) /\ SubSeq(s, 1, Len(prefix)) = prefix

TrimPrefix(s, prefix) ==
    IF HasPrefix(s, prefix) THEN SubSeq(s, Len(prefix) + 1, Len(s)) ELSE s

\* A split that leaves the parameters on the address.
SplitNone(s, sep) == s

RECURSIVE SplitFirst(_, _)
SplitFirst(s, sep) ==
    IF s = << >> \/ Head(s) = sep THEN << >>
    ELSE << Head(s) >> \o SplitFirst(Tail(s), sep)

MailtoScheme == << "m", "a", "i", "l", "t", "o", ":" >>

(***************************************************************************)
(* Fetched documents.  A document is the sequence of its elements in       *)
(* document order (the order in which OnHTML("*") is called); an element   *)
(* carries its text (e.Text, the text of the element and its descendants)  *)
(* and the href values of its descendant <a href^='mailto:'> links.        *)
(***************************************************************************)
TextHi == << "h", "i" >>
TextTwice == << "a", "@", "b", ".", "c", "c", " ", "a", "@", "b", ".", "c", "c" >>
HrefXY == MailtoScheme \o << "x", "@", "y", ".", "c", "c", "?", "s", "=", "h" >>

Elem(text, hrefs) == [Text |-> text, Mailto |-> hrefs]

\* <html><head></head><body>hi</body></html>
DocPlain ==
    << Elem(TextHi, << >>), Elem(<< >>, << >>), Elem(TextHi, << >>) >>

\* <html><head></head><body>a@b.cc a@b.cc</body></html>
DocText ==
    << Elem(TextTwice, << >>), Elem(<< >>, << >>), Elem(TextTwice, << >>) >>

\* <html><head></head><body><a href="mailto:x@y.cc?s=h">hi</a></body></html>
DocMailto ==
    << Elem(TextHi, << HrefXY >>), Elem(<< >>, << >>),
       Elem(TextHi, << HrefXY >>), Elem(TextHi, << >>) >>

Docs == { DocPlain, DocText, DocMailto }

(***************************************************************************)
(* The OnHTML("*") callback of the two processPage definitions, as the     *)
(* sequence of email lists it hands to the store for one element.          *)
(***************************************************************************)
\* e.ForEach("a[href^='mailto:']", ...) of lines 288-296.
RECURSIVE mailtoCalls(_)
mailtoCalls(hrefs) ==
    IF hrefs = << >> THEN << >>
    ELSE LET href == Head(hrefs)
             email == SplitFirst(TrimPrefix(href, MailtoScheme), "?")
         IN  (IF HasPrefix(href, MailtoScheme) /\ isValidEmail(email)
              THEN << << email >> >> ELSE << >>)
             \o mailtoCalls(Tail(hrefs))

\* A callback that hands the extracted list to the store even when it is empty.
OnHTMLAlwaysStores(v, e) ==
    LET emails == extractEmailsFromText(e.Text)
        fromText == << emails >>
    IN  IF v = "A" THEN fromText \o mailtoCalls(e.Mailto) ELSE fromText

\* Lines 281-297 (variant A) and 510-525 (variant B).
OnHTML(v, e) ==
    LET emails == extractEmailsFromText(e.Text)
        fromText == IF Len(emails) > 0 THEN << emails >> ELSE << >>
    IN  IF v = "A" THEN fromText \o mailtoCalls(e.Mailto) ELSE fromText

RECURSIVE HTMLCalls(_, _)
HTMLCalls(v, d) ==
    IF d = << >> THEN << >> ELSE OnHTML(v, Head(d)) \o HTMLCalls(v, Tail(d))

\* The store calls of every document under either variant, computed once.
CallsTable == [v \in { "A", "B" }, d \in Docs |-> HTMLCalls(v, d)]

\* The Result appended for one call: storeResults (variant A) filters
\* duplicates first, the inline append of variant B stores the list as it is.
NewResult(v, emails, page) ==
    [Emails   |-> IF v = "A" THEN filterLoop(emails, << >>) ELSE emails,
     Location |-> page,
     Source   |-> page]

(***************************************************************************)
(* The state.                                                              *)
(***************************************************************************)
VARIABLES
    variant,        \* which processPage the build holds: "A" or "B"
    proxyEnabled,   \* the proxyEnabled argument
    ProxyAddress,   \* config.ProxyAddress
    MaxRetries,     \* config.MaxRetries
    pages,          \* the pages argument of extractEmails
    cancelled,      \* ctx.Done() is closed
    tickPending,    \* a tick waits in ticker.C (a channel of capacity 1)
    ticks,          \* ticks delivered to ticker.C so far
    cpc,            \* where extractEmails is: "loop", "wait", "returned"
    launched,       \* number of workers launched so far
    wpage,          \* worker -> the page its goroutine was started with
    wg,             \* the WaitGroup counter
    errs,           \* the buffered error channel
    sent,           \* history: the error values in the order they were sent
    ret,            \* what extractEmails returned
    errorList,      \* the messages drained from errs
    wpc,            \* worker -> position of its goroutine
    werr,           \* worker -> the error processPage returned: "", "proxy", "visit"
    fpc,            \* worker -> position of its collector's fetch goroutine
    fetchCount,     \* worker -> fetches issued by its request chain while it runs
    delay,          \* worker -> seconds of the sleep its OnError callback is in, 0 if none
    doc,            \* worker -> the document its successful fetch returned
    calls,          \* worker -> store calls OnHTML still has to make
    local,          \* worker -> the slice value read under the lock
    mu,             \* holder of the mutex mu, 0 when free
    results,        \* the global results slice
    input,          \* the string handed to an extraction function
    tpc,            \* which extraction function was applied to input
    found,          \* the emails the function returned or handed to the store
    matched,        \* the result of MatchString
    RequestTimeout, \* config.RequestTimeout
    RateLimit,      \* config.RateLimit
    UserAgent,      \* config.UserAgent
    mpc,            \* where main is
    apc,            \* where the cron job is: "off", "armed", or inside runAutomatedSearch
    exitCode,       \* the exit code of the process, -1 while it runs
    autoRuns,       \* automated searches started so far
    runLog,         \* history: the outcomes of the stages of the current run
    carried,        \* history: the store as it was when the current run started
    files           \* the result files written: for each, the run that wrote it

vars ==
    << variant, proxyEnabled, ProxyAddress, MaxRetries, pages, cancelled,
       tickPending, ticks, cpc, launched, wpage, wg, errs, sent, ret,
       errorList, wpc, werr, fpc, fetchCount, delay, doc, calls, local, mu, results,
       input, tpc, found, matched,
       RequestTimeout, RateLimit, UserAgent, mpc, apc, exitCode, autoRuns, runLog,
       carried, files >>

cfgVars == << variant, proxyEnabled, ProxyAddress, MaxRetries, pages >>
coordVars == << cpc, launched, wpage, ret, errorList >>
workerVars == << wpc, werr >>
fetchVars == << fpc, fetchCount, delay, doc, calls >>
storeVars == << local, mu, results >>
textVars == << input, tpc, found, matched >>
configVars == << RequestTimeout, RateLimit, UserAgent >>
outVars == << carried, files >>
mainVars == << configVars, mpc, apc, exitCode, autoRuns, runLog, outVars >>
crawlVars ==
    << cfgVars, cancelled, tickPending, ticks, coordVars, wg, errs, sent,
       workerVars, fetchVars, storeVars >>

(***************************************************************************)
(* Inputs.                                                                 *)
(***************************************************************************)
BadURL == "%"                     \* a URL that url.Parse rejects
SiteURLs == << "u1", "u2", "u3", "u4" >>

NoDoc == << [Text |-> << "-" >>, Mailto |-> << >>] >>

\* The page lists: 1..MaxPages distinct URLs, the i-th being the URL of
\* site i or the URL that does not parse.
PageLists ==
    UNION { { s \in [1..n -> { BadURL } \cup { SiteURLs[i] : i \in 1..n }] :
                /\ \A i \in 1..n : s[i] \in { BadURL, SiteURLs[i] }
                /\ \A i, j \in 1..n : i # j => s[i] # s[j] }
            : n \in 1..MaxPages }

\* The proxy settings: the -p flag and config.ProxyAddress.
ProxySettings ==
    { << FALSE, "" >>, << TRUE, "" >>, << TRUE, "proxy:1080" >> }

\* config.MaxRetries is read by variant A only (line 266).
RetrySettings(v) == IF v = "A" THEN { 0, MaxRetriesCfg } ELSE { 0 }

Workers == 1..Len(pages)

\* A channel one slot short of the page count.
ErrsCapShort == Len(pages) - 1

\* cap(errs): make(chan error, len(pages)), line 440.
ErrsCap == Len(pages)

\* The defaults of loadConfig (lines 80-81, 93).
DefaultRequestTimeout == 30
DefaultRateLimit == 1000
DefaultUserAgent == "Mozilla/5.0"

\* extractEmails is called on its own, under a valid configuration.
MainIdle ==
    /\ RequestTimeout = DefaultRequestTimeout
    /\ RateLimit = DefaultRateLimit
    /\ UserAgent = DefaultUserAgent
    /\ mpc = "off" /\ apc = "off" /\ exitCode = -1 /\ autoRuns = 0
    /\ runLog = << >>
    /\ carried = << >> /\ files = << >>

\* No extraction function is being applied on its own.
TextIdle == input = << >> /\ tpc = "off" /\ found = << >> /\ matched = FALSE

Init ==
    /\ variant \in { "A", "B" }
    /\ \E ps \in ProxySettings : proxyEnabled = ps[1] /\ ProxyAddress = ps[2]
    /\ MaxRetries \in RetrySettings(variant)
    /\ pages \in PageLists
    /\ cancelled = FALSE
    /\ tickPending = FALSE
    /\ ticks = 0
    /\ cpc = "loop"
    /\ launched = 0
    /\ wpage = [w \in Workers |-> ""]
    /\ wg = 0
    /\ errs = << >>
    /\ sent = << >>
    /\ ret = "none"
    /\ errorList = << >>
    /\ wpc = [w \in Workers |-> "idle"]
    /\ werr = [w \in Workers |-> ""]
    /\ fpc = [w \in Workers |-> "none"]
    /\ fetchCount = [w \in Workers |-> 0]
    /\ delay = [w \in Workers |-> 0]
    /\ doc = [w \in Workers |-> NoDoc]
    /\ calls = [w \in Workers |-> << >>]
    /\ local = [w \in Workers |-> << >>]
    /\ mu = 0
    /\ results = << >>
    /\ TextIdle
    /\ MainIdle

(***************************************************************************)
(* The environment: the ticker and the context.                            *)
(***************************************************************************)
\* time.NewTicker (line 443): a tick is delivered when ticker.C is empty and
\* dropped otherwise.  ticker.C is read by the select of the launch loop
\* only, so ticks after the loop change nothing and are left out.
Tick ==
    /\ cpc = "loop"
    /\ ~tickPending
    /\ tickPending' = TRUE
    /\ ticks' = ticks + 1
    /\ UNCHANGED << mainVars, textVars, cfgVars, sent, cancelled, coordVars, wg, errs, workerVars, fetchVars, storeVars >>

\* A cancellation that also ends the fetches in flight.
CancelAbortsFetches ==
    /\ cpc = "loop"
    /\ ~cancelled
    /\ cancelled' = TRUE
    /\ fpc' = [w \in Workers |-> IF fpc[w] = "inflight" THEN "finished" ELSE fpc[w]]
    /\ UNCHANGED << mainVars, textVars, cfgVars, sent, tickPending, ticks, coordVars, wg, errs,
                    workerVars, fetchCount, delay, doc, calls, storeVars >>

\* The caller cancels ctx.  ctx is read by the select of the launch loop only
\* (line 448; processPage never reads its ctx argument), so a cancellation
\* after the loop changes nothing and is left out.
Cancel ==
    /\ cpc = "loop"
    /\ ~cancelled
    /\ cancelled' = TRUE
    /\ UNCHANGED << mainVars, textVars, cfgVars, sent, tickPending, ticks, coordVars, wg, errs,
                    workerVars, fetchVars, storeVars >>

(***************************************************************************)
(* extractEmails, lines 438-476.                                           *)
(***************************************************************************)
\* A closure that reads the loop variable after the loop has moved on.
PageToLaunchCaptured(n) == pages[Len(pages)]

\* The page handed to the goroutine launched when `n` workers were launched:
\* the loop variable, passed as the argument of go func(page) (lines 452, 457).
PageToLaunch(n) == pages[n + 1]

\* The state of extractEmails after the n-th launch: the range loop ends
\* after the last page and wg.Wait() follows.
AfterLaunch(n) == IF n = Len(pages) THEN "wait" ELSE "loop"

\* A launch that does not wait for the ticker.
TickReadyAlways == TRUE

\* A loop that stops launching once a worker has reported an error.
TickReadyUntilError == tickPending /\ sent = << >>

\* A loop that launches its first worker at once and waits from the second.
TickReadyOrFirst == tickPending \/ launched = 0

\* case <-ticker.C (line 450) can proceed when a tick waits in the channel.
TickReady == tickPending

\* select case <-ticker.C (lines 450-457): wg.Add(1) and go func(page).
Launch ==
    /\ cpc = "loop"
    /\ TickReady
    /\ tickPending' = FALSE
    /\ wg' = wg + 1
    /\ launched' = launched + 1
    /\ wpage' = [wpage EXCEPT ![launched + 1] = PageToLaunch(launched)]
    /\ wpc' = [wpc EXCEPT ![launched + 1] = "run"]
    /\ cpc' = AfterLaunch(launched + 1)
    /\ UNCHANGED << mainVars, textVars, cfgVars, sent, cancelled, ticks, errs, ret, errorList, werr,
                    fetchVars, storeVars >>

\* select case <-ctx.Done() (lines 448-449): return ctx.Err().
\* When both cases are ready the select takes either.
CancelReturn ==
    /\ cpc = "loop"
    /\ cancelled
    /\ cpc' = "returned"
    /\ ret' = "ctxErr"
    /\ UNCHANGED << mainVars, textVars, cfgVars, sent, cancelled, tickPending, ticks, launched, wpage, wg,
                    errs, errorList, workerVars, fetchVars, storeVars >>

\* wg.Wait() returns when the counter is zero.
WaitDone == wg = 0

\* A drain that puts each received message in front of the list.
RECURSIVE DrainedNewestFirst(_)
DrainedNewestFirst(ch) ==
    IF ch = << >> THEN << >>
    ELSE Append(DrainedNewestFirst(Tail(ch)), Head(ch))

\* for err := range errs { errorList = append(errorList, err.Error()) }
\* (lines 466-469): the closed channel yields its messages oldest first.
RECURSIVE Drained(_)
Drained(ch) ==
    IF ch = << >> THEN << >>
    ELSE << Head(ch) >> \o Drained(Tail(ch))

\* Lines 471-475: a non-empty list is joined into one "multiple errors
\* occurred" error, an empty one gives nil.
Aggregate(list) == IF Len(list) > 0 THEN "multiple" ELSE "nil"

\* Lines 462-475: wg.Wait(), close(errs), drain, join.
Join ==
    /\ cpc = "wait"
    /\ WaitDone
    /\ errorList' = Drained(errs)
    /\ errs' = << >>
    /\ ret' = Aggregate(Drained(errs))
    /\ cpc' = "returned"
    /\ UNCHANGED << mainVars, textVars, cfgVars, sent, cancelled, tickPending, ticks, launched, wpage, wg,
                    workerVars, fetchVars, storeVars >>

(***************************************************************************)
(* The worker goroutine (lines 452-457) running processPage.               *)
(***************************************************************************)
\* The condition of lines 251 and 488.
ProxyConfigured == proxyEnabled /\ ProxyAddress # ""

\* The error value a worker sends: "page <page>: <cause>".
PageError(page, cause) == [page |-> page, cause |-> cause]

\* A proxy setup error that is noted and followed by the Visit all the same.
ProxySetupIgnored(w) ==
    /\ wpc[w] = "run"
    /\ ProxyConfigured
    /\ werr[w] = ""
    /\ werr' = [werr EXCEPT ![w] = "proxy"]
    /\ UNCHANGED << mainVars, textVars, cfgVars, sent, cancelled, tickPending, ticks, coordVars, wg, errs,
                    wpc, fetchVars, storeVars >>

\* setupProxy returns an error: processPage returns "proxy setup failed"
\* before any Visit (lines 251-254, 488-491).
ProxySetupFails(w) ==
    /\ wpc[w] = "run"
    /\ ProxyConfigured
    /\ wpc' = [wpc EXCEPT ![w] = "send"]
    /\ werr' = [werr EXCEPT ![w] = "proxy"]
    /\ UNCHANGED << mainVars, textVars, cfgVars, sent, cancelled, tickPending, ticks, coordVars, wg, errs,
                    fetchVars, storeVars >>

\* What processPage does once c.Visit(page) returned nil: variant A returns
\* nil at once (line 299), variant B calls c.Wait() (line 542).
AfterVisit(v) == IF v = "A" THEN "return" ELSE "cwait"

\* c.Visit(page), lines 299 and 536.  A URL that does not parse makes Visit
\* return an error; otherwise the request is queued, the fetch starts in the
\* collector's goroutine and Visit returns nil.
Visit(w) ==
    /\ wpc[w] = "run"
    /\ IF wpage[w] = BadURL
       THEN /\ wpc' = [wpc EXCEPT ![w] = "send"]
            /\ werr' = [werr EXCEPT ![w] = "visit"]
            /\ UNCHANGED << wg, fetchVars >>
       ELSE /\ fpc' = [fpc EXCEPT ![w] = "inflight"]
            /\ fetchCount' = [fetchCount EXCEPT ![w] = 1]
            /\ IF AfterVisit(variant) = "return"
               THEN /\ wg' = wg - 1
                    /\ wpc' = [wpc EXCEPT ![w] = "done"]
               ELSE /\ wg' = wg
                    /\ wpc' = [wpc EXCEPT ![w] = "cwait"]
            /\ UNCHANGED << werr, delay, doc, calls >>
    /\ UNCHANGED << mainVars, textVars, cfgVars, sent, cancelled, tickPending, ticks, coordVars, errs, storeVars >>

\* A send on errs proceeds when the buffer has room.
CanSend == Len(errs) < ErrsCap

\* A worker that sends its error and ends without wg.Done().
SendErrNoDone(w) ==
    /\ wpc[w] = "send"
    /\ CanSend
    /\ errs' = Append(errs, PageError(wpage[w], werr[w]))
    /\ sent' = Append(sent, PageError(wpage[w], werr[w]))
    /\ wpc' = [wpc EXCEPT ![w] = "done"]
    /\ UNCHANGED << mainVars, textVars, cfgVars, cancelled, tickPending, ticks, coordVars, wg, werr,
                    fetchVars, storeVars >>

\* errs <- fmt.Errorf("page %s: %w", page, err), then the deferred wg.Done().
SendErr(w) ==
    /\ wpc[w] = "send"
    /\ CanSend
    /\ errs' = Append(errs, PageError(wpage[w], werr[w]))
    /\ sent' = Append(sent, PageError(wpage[w], werr[w]))
    /\ wg' = wg - 1
    /\ wpc' = [wpc EXCEPT ![w] = "done"]
    /\ UNCHANGED << mainVars, textVars, cfgVars, cancelled, tickPending, ticks, coordVars, werr,
                    fetchVars, storeVars >>

\* c.Wait() of variant B (lines 541-543) returns when the collector has no
\* request left; processPage returns nil and the deferred wg.Done() runs.
CollectorWait(w) ==
    /\ wpc[w] = "cwait"
    /\ fpc[w] = "finished"
    /\ wg' = wg - 1
    /\ wpc' = [wpc EXCEPT ![w] = "done"]
    /\ UNCHANGED << mainVars, textVars, cfgVars, sent, cancelled, tickPending, ticks, coordVars, errs, werr,
                    fetchVars, storeVars >>

(***************************************************************************)
(* The collector's fetch goroutine and its callbacks.                      *)
(***************************************************************************)
\* The OnError callback.  Variant A (lines 261-277) enters its retry loop
\* when retries (0) < config.MaxRetries and sleeps; variant B (lines 497-501)
\* only logs.
OnError(v) == IF v = "A" /\ 0 < MaxRetries THEN "backoff" ELSE "finished"

\* The request chain ends when the callback schedules no further fetch.
ChainCount(n, next) == IF next = "backoff" THEN n ELSE 0

\* retries := 0 (line 265): the counter is a local of the callback, so every
\* call of the callback starts it anew.
RetriesAtEntry == 0

\* time.Duration(1<<uint(retries)) * time.Second (line 270), in seconds.
Backoff(retries) == 2 ^ retries

\* The sleep the callback begins, 0 when it begins none.
SleepOf(next) == IF next = "backoff" THEN Backoff(RetriesAtEntry) ELSE 0

FetchFails(w) ==
    /\ fpc[w] = "inflight"
    /\ fpc' = [fpc EXCEPT ![w] = OnError(variant)]
    /\ fetchCount' = [fetchCount EXCEPT ![w] = ChainCount(@, OnError(variant))]
    /\ delay' = [delay EXCEPT ![w] = SleepOf(OnError(variant))]
    /\ UNCHANGED << mainVars, textVars, cfgVars, sent, cancelled, tickPending, ticks, coordVars, wg, errs,
                    workerVars, doc, calls, storeVars >>

\* Lines 270-274: after the sleep, c.Visit queues a new fetch and returns
\* nil, so the loop breaks before retries++ and the callback returns.
RetryVisit(w) ==
    /\ fpc[w] = "backoff"
    /\ fetchCount[w] < MaxFetch
    /\ fetchCount' = [fetchCount EXCEPT ![w] = @ + 1]
    /\ fpc' = [fpc EXCEPT ![w] = "inflight"]
    /\ delay' = [delay EXCEPT ![w] = 0]
    /\ UNCHANGED << mainVars, textVars, cfgVars, sent, cancelled, tickPending, ticks, coordVars, wg, errs,
                    workerVars, doc, calls, storeVars >>

\* The fetch succeeds with document d: OnHTML runs for each element.
FetchSucceeds(w, d) ==
    /\ fpc[w] = "inflight"
    /\ doc' = [doc EXCEPT ![w] = d]
    /\ calls' = [calls EXCEPT ![w] = CallsTable[variant, d]]
    /\ fetchCount' = [fetchCount EXCEPT ![w] = 0]
    /\ fpc' = [fpc EXCEPT ![w] = IF CallsTable[variant, d] = << >>
                                  THEN "finished" ELSE "html"]
    /\ UNCHANGED << mainVars, textVars, cfgVars, sent, cancelled, tickPending, ticks, coordVars, wg, errs,
                    workerVars, delay, storeVars >>

\* An append that takes no lock.
CanLockAlways == TRUE

\* mu.Lock() succeeds when nobody holds mu.
CanLock == mu = 0

\* mu.Lock() (lines 304, 512) and the read of results by append.
Lock(w) ==
    /\ fpc[w] = "html"
    /\ CanLock
    /\ mu' = w
    /\ local' = [local EXCEPT ![w] = results]
    /\ fpc' = [fpc EXCEPT ![w] = "locked"]
    /\ UNCHANGED << mainVars, textVars, cfgVars, sent, cancelled, tickPending, ticks, coordVars, wg, errs,
                    workerVars, fetchCount, delay, doc, calls, results >>

\* An append that returns without releasing the mutex.
AppendKeepsLock(w) ==
    /\ fpc[w] = "locked"
    /\ results' = Append(local[w], NewResult(variant, Head(calls[w]), wpage[w]))
    /\ local' = [local EXCEPT ![w] = << >>]
    /\ calls' = [calls EXCEPT ![w] = Tail(@)]
    /\ fpc' = [fpc EXCEPT ![w] = IF Tail(calls[w]) = << >> THEN "finished" ELSE "html"]
    /\ UNCHANGED << mainVars, textVars, cfgVars, sent, cancelled, tickPending, ticks, coordVars, wg, errs,
                    workerVars, fetchCount, delay, doc, mu >>

\* results = append(results, Result{...}) and mu.Unlock() (lines 319-324,
\* 513-519).
AppendUnlock(w) ==
    /\ fpc[w] = "locked"
    /\ results' = Append(local[w], NewResult(variant, Head(calls[w]), wpage[w]))
    /\ local' = [local EXCEPT ![w] = << >>]
    /\ mu' = 0
    /\ calls' = [calls EXCEPT ![w] = Tail(@)]
    /\ fpc' = [fpc EXCEPT ![w] = IF Tail(calls[w]) = << >> THEN "finished" ELSE "html"]
    /\ UNCHANGED << mainVars, textVars, cfgVars, sent, cancelled, tickPending, ticks, coordVars, wg, errs,
                    workerVars, fetchCount, delay, doc >>

Next ==
    \/ Tick
    \/ Cancel
    \/ Launch
    \/ CancelReturn
    \/ Join
    \/ \E w \in Workers : ProxySetupFails(w)
    \/ \E w \in Workers : Visit(w)
    \/ \E w \in Workers : SendErr(w)
    \/ \E w \in Workers : CollectorWait(w)
    \/ \E w \in Workers : FetchFails(w)
    \/ \E w \in Workers : RetryVisit(w)
    \/ \E w \in Workers : \E d \in Docs : FetchSucceeds(w, d)
    \/ \E w \in Workers : Lock(w)
    \/ \E w \in Workers : AppendUnlock(w)

Spec == Init /\ [][Next]_vars

\* The steps of extractEmails' own goroutine when its context is never
\* cancelled.
CoordinatorStep == Tick \/ Launch \/ Join

\* The steps of worker w's goroutine and of its collector.
WorkerStep(w) ==
    /\ w \in Workers
    /\ \/ ProxySetupFails(w)
       \/ Visit(w)
       \/ SendErr(w)
       \/ CollectorWait(w)
       \/ FetchFails(w)
       \/ \E d \in Docs : FetchSucceeds(w, d)
       \/ RetryVisit(w)
       \/ Lock(w)
       \/ AppendUnlock(w)

\* The steps of a crawl whose context is never cancelled.
NextUncancelled ==
    \/ CoordinatorStep
    \/ \E w \in 1..MaxPages : WorkerStep(w)

\* The scheduling the liveness properties rely on: the crawl does not stop
\* while one of its goroutines can take a step.  The ticker keeps firing,
\* the Go scheduler runs a runnable goroutine, an HTTP fetch ends, with a
\* response or with an error, and a sleep ends.  Which goroutine runs and
\* how a fetch ends is not constrained.
Fairness == WF_vars(NextUncancelled)

FairSpec == Init /\ [][NextUncancelled]_vars /\ Fairness

(***************************************************************************)
(* A crawl of one page under a retry setting that leaves room for more     *)
(* than one retry.                                                         *)
(***************************************************************************)
MaxRetriesChain == 2   \* largest config.MaxRetries of the one-page crawl

\* config.MaxRetries is read by variant A only (line 266).
RetrySettingsChain(v) == IF v = "A" THEN 0..MaxRetriesChain ELSE { 0 }

RetryInit ==
    /\ variant \in { "A", "B" }
    /\ \E ps \in ProxySettings : proxyEnabled = ps[1] /\ ProxyAddress = ps[2]
    /\ MaxRetries \in RetrySettingsChain(variant)
    /\ pages \in { ps \in PageLists : Len(ps) = 1 }
    /\ cancelled = FALSE
    /\ tickPending = FALSE
    /\ ticks = 0
    /\ cpc = "loop"
    /\ launched = 0
    /\ wpage = [w \in Workers |-> ""]
    /\ wg = 0
    /\ errs = << >>
    /\ sent = << >>
    /\ ret = "none"
    /\ errorList = << >>
    /\ wpc = [w \in Workers |-> "idle"]
    /\ werr = [w \in Workers |-> ""]
    /\ fpc = [w \in Workers |-> "none"]
    /\ fetchCount = [w \in Workers |-> 0]
    /\ delay = [w \in Workers |-> 0]
    /\ doc = [w \in Workers |-> NoDoc]
    /\ calls = [w \in Workers |-> << >>]
    /\ local = [w \in Workers |-> << >>]
    /\ mu = 0
    /\ results = << >>
    /\ TextIdle
    /\ MainIdle

RetrySpec == RetryInit /\ [][Next]_vars

(***************************************************************************)
(* The extraction functions on their own: a text is chosen, then one of    *)
(* extractEmailsFromText, the mailto handler of OnHTML and the MatchString *)
(* of TestEmailRegex is applied to it.                                     *)
(***************************************************************************)
\* A letter, the two separators of an address and a character no part of
\* an address admits (and that starts the parameters of a mailto link).
TextAlphabet == { "a", "@", ".", "?" }

Chars(str) ==
    CASE str = "test@example.com" ->
           << "t","e","s","t","@","e","x","a","m","p","l","e",".","c","o","m" >>
      [] str = "user.name+tag@example.co.uk" ->
           << "u","s","e","r",".","n","a","m","e","+","t","a","g","@",
              "e","x","a","m","p","l","e",".","c","o",".","u","k" >>
      [] str = "user@" -> << "u","s","e","r","@" >>
      [] str = "userexample.com" ->
           << "u","s","e","r","e","x","a","m","p","l","e",".","c","o","m" >>
      [] str = "user@domain@example.com" ->
           << "u","s","e","r","@","d","o","m","a","i","n","@",
              "e","x","a","m","p","l","e",".","c","o","m" >>
      [] str = "user123@example456.com" ->
           << "u","s","e","r","1","2","3","@",
              "e","x","a","m","p","l","e","4","5","6",".","c","o","m" >>
      [] str = "first.last@example.com" ->
           << "f","i","r","s","t",".","l","a","s","t","@",
              "e","x","a","m","p","l","e",".","c","o","m" >>
      [] str = "user#@example.com" ->
           << "u","s","e","r","#","@","e","x","a","m","p","l","e",".","c","o","m" >>
      [] str = "x@y.com?subject=Hi" ->
           << "x","@","y",".","c","o","m","?",
              "s","u","b","j","e","c","t","=","H","i" >>
      [] str = "x@y.com" -> << "x","@","y",".","c","o","m" >>
      [] str = "a@b.cc, A@b.cc; a@b.cc" ->
           << "a","@","b",".","c","c",","," ","A","@","b",".","c","c",";"," ",
              "a","@","b",".","c","c" >>

\* The inputs of the table of TestEmailRegex.
TestInputs ==
    { "test@example.com", "user.name+tag@example.co.uk", "user@",
      "userexample.com", "user@domain@example.com", "user123@example456.com",
      "first.last@example.com", "user#@example.com" }

\* The texts: every string of at most MaxTextLen characters of the
\* alphabet, the inputs of the test, a mailto target with parameters and
\* texts that repeat an address.
Texts ==
    UNION { [1..n -> TextAlphabet] : n \in 0..MaxTextLen }
    \cup { Chars(str) : str \in TestInputs }
    \cup { Chars("x@y.com?subject=Hi"), Chars("a@b.cc, A@b.cc; a@b.cc"), TextTwice }

\* The crawl is not running.
NoCrawl ==
    /\ pages = << >>
    /\ cancelled = FALSE /\ tickPending = FALSE /\ ticks = 0
    /\ cpc = "off" /\ launched = 0 /\ wpage = << >> /\ wg = 0
    /\ errs = << >> /\ sent = << >> /\ ret = "none" /\ errorList = << >>
    /\ wpc = << >> /\ werr = << >>
    /\ fpc = << >> /\ fetchCount = << >> /\ delay = << >>
    /\ doc = << >> /\ calls = << >>
    /\ local = << >> /\ mu = 0 /\ results = << >>

CrawlIdle ==
    /\ variant = "A"
    /\ proxyEnabled = FALSE /\ ProxyAddress = ""
    /\ MaxRetries = 0
    /\ NoCrawl

TextInit ==
    /\ CrawlIdle
    /\ MainIdle
    /\ input \in Texts
    /\ tpc = "input"
    /\ found = << >>
    /\ matched = FALSE

\* emails := extractEmailsFromText(e.Text, emailRegex), lines 283 and 559-572.
ExtractFromText ==
    /\ tpc = "input"
    /\ found' = extractEmailsFromText(input)
    /\ tpc' = "extracted"
    /\ UNCHANGED << mainVars, crawlVars, input, matched >>

RECURSIVE Concat(_)
Concat(lists) == IF lists = << >> THEN << >> ELSE Head(lists) \o Concat(Tail(lists))

\* The mailto handler (lines 288-296) on a link whose href is "mailto:"
\* followed by input: found takes the emails handed to storeResults.
MailtoLink ==
    /\ tpc = "input"
    /\ found' = Concat(mailtoCalls(<< MailtoScheme \o input >>))
    /\ tpc' = "mailto"
    /\ UNCHANGED << mainVars, crawlVars, input, matched >>

\* emailRegex.MatchString(tt.input) with the pattern as the test and line
\* 279 compile it, without anchors: some substring matches.
MatchString(t) == \E i \in 1..Len(t) : MatchEnd(t, i) # 0

\* got := emailRegex.MatchString(tt.input), part_001 line 30.
MatchTest ==
    /\ tpc = "input"
    /\ matched' = MatchString(input)
    /\ tpc' = "matched"
    /\ UNCHANGED << mainVars, crawlVars, input, found >>

TextNext == ExtractFromText \/ MailtoLink \/ MatchTest

TextSpec == TextInit /\ [][TextNext]_vars

(***************************************************************************)
(* The pipeline: main (lines 141-171 and 335-369) and the daily job that   *)
(* scheduleAutomation registers (lines 720-763).  The statements of main   *)
(* between validateConfig and the call of extractEmails are not in the     *)
(* source; the page list main passes is taken to be the result of          *)
(* identifyTargetPages for the flags.                                      *)
(***************************************************************************)
MaxAutoRuns == 1       \* automated searches the cron job starts

\* The configurations loadConfig can leave: the integers come from the
\* environment or config.json, the user agent is never empty (line 92).
RequestTimeouts == { -1, 0, DefaultRequestTimeout }
RateLimits == { 0, DefaultRateLimit }
UserAgents == { DefaultUserAgent }

\* A validation that looks at the request timeout only.
validateConfigTimeoutOnly ==
    IF RequestTimeout <= 0 THEN << "invalid request timeout value" >> ELSE << >>

\* validateConfig, lines 371-391: the list of errors, empty for nil.
validateConfig ==
    (IF RequestTimeout <= 0 THEN << "invalid request timeout value" >> ELSE << >>)
    \o (IF RateLimit <= 0 THEN << "invalid rate limit value" >> ELSE << >>)
    \o (IF UserAgent = "" THEN << "user agent cannot be empty" >> ELSE << >>)

\* identifyTargetPages, lines 393-436, for a non-empty location: one URL
\* for each known engine of the list, then the LinkedIn URL.  (The
\* definition of lines 174-237 builds six URLs for each engine instead of
\* one; the model keeps one.)
RECURSIVE engineLoop(_)
engineLoop(engines) ==
    IF engines = << >> THEN << >>
    ELSE (CASE Head(engines) = "google" -> << SiteURLs[1] >>
            [] Head(engines) = "bing" -> << SiteURLs[2] >>
            [] Head(engines) = "duckduckgo" -> << SiteURLs[3] >>
            [] OTHER -> << >>)
         \o engineLoop(Tail(engines))

identifyTargetPages(engines, linkedinMode) ==
    engineLoop(engines) \o (IF linkedinMode THEN << SiteURLs[4] >> ELSE << >>)

\* The search main is run with: -b google, without -l.
MainEngines == << "google" >>

\* The page list main hands to extractEmails.  The statements of main that
\* compute it are not in the source; it is taken to be the result of
\* identifyTargetPages for the flags, a location having been given.
MainPages == identifyTargetPages(MainEngines, FALSE)

\* The search of runAutomatedSearch (lines 740-745): "google,bing", no
\* LinkedIn, proxy enabled.
AutoEngines == << "google", "bing" >>

\* What a fetched page is in a run of the pipeline: a page with addresses.
RunDocs == { DocText }

\* The output formats main is run with, and the outcomes of the writes.
Formats == { "json", "xml" }
IOOutcomes == { "", "write failed" }

\* A save that does not look at the store before it writes.
saveResultsNoEmptyCheck(format, io) ==
    IF format \notin { "json", "csv", "txt" } THEN "unsupported format"
    ELSE io

\* saveResults, lines 579-596, with the outcome io of the file write.
saveResults(format, io) ==
    IF Len(results) = 0 THEN "no results to save"
    ELSE IF format \notin { "json", "csv", "txt" } THEN "unsupported format"
    ELSE io

\* saveResultsToDB, lines 658-673, with the outcome io of the inserts.
saveResultsToDB(io) ==
    IF Len(results) = 0 THEN "no results to save" ELSE io

Running == exitCode = -1

MainInit ==
    /\ variant \in { "A", "B" }
    /\ \E ps \in ProxySettings : proxyEnabled = ps[1] /\ ProxyAddress = ps[2]
    /\ MaxRetries \in RetrySettings(variant)
    /\ NoCrawl
    /\ TextIdle
    /\ RequestTimeout \in RequestTimeouts
    /\ RateLimit \in RateLimits
    /\ UserAgent \in UserAgents
    /\ mpc = "validate" /\ apc = "off" /\ exitCode = -1 /\ autoRuns = 0
    /\ runLog = << >>
    /\ carried = << >> /\ files = << >>

\* No request of an earlier crawl is still running.
NoRequestRunning == \A w \in Workers : fpc[w] \in { "none", "finished" }

\* A crawl that begins with an empty store.
CrawlStartEmptyStore(ps, pe) ==
    /\ NoRequestRunning
    /\ pages' = ps
    /\ proxyEnabled' = pe
    /\ cancelled' = FALSE /\ tickPending' = FALSE /\ ticks' = 0
    /\ cpc' = "loop" /\ launched' = 0 /\ wg' = 0
    /\ errs' = << >> /\ sent' = << >> /\ ret' = "none" /\ errorList' = << >>
    /\ wpage' = [w \in 1..Len(ps) |-> ""]
    /\ wpc' = [w \in 1..Len(ps) |-> "idle"]
    /\ werr' = [w \in 1..Len(ps) |-> ""]
    /\ fpc' = [w \in 1..Len(ps) |-> "none"]
    /\ fetchCount' = [w \in 1..Len(ps) |-> 0]
    /\ delay' = [w \in 1..Len(ps) |-> 0]
    /\ doc' = [w \in 1..Len(ps) |-> NoDoc]
    /\ calls' = [w \in 1..Len(ps) |-> << >>]
    /\ local' = [w \in 1..Len(ps) |-> << >>]
    /\ results' = << >>
    /\ UNCHANGED << variant, ProxyAddress, MaxRetries, mu >>

\* The call extractEmails(ctx, ps, pe, verbose), lines 438-444: a new
\* WaitGroup, error channel and ticker, a context that is not cancelled
\* (main cancels its context when it returns, the daily job passes
\* context.Background()); the store is the global it was.  The daily job
\* runs a day later: the model starts a crawl once the requests of the
\* crawl before it have ended.
CrawlStart(ps, pe) ==
    /\ NoRequestRunning
    /\ pages' = ps
    /\ proxyEnabled' = pe
    /\ cancelled' = FALSE /\ tickPending' = FALSE /\ ticks' = 0
    /\ cpc' = "loop" /\ launched' = 0 /\ wg' = 0
    /\ errs' = << >> /\ sent' = << >> /\ ret' = "none" /\ errorList' = << >>
    /\ wpage' = [w \in 1..Len(ps) |-> ""]
    /\ wpc' = [w \in 1..Len(ps) |-> "idle"]
    /\ werr' = [w \in 1..Len(ps) |-> ""]
    /\ fpc' = [w \in 1..Len(ps) |-> "none"]
    /\ fetchCount' = [w \in 1..Len(ps) |-> 0]
    /\ delay' = [w \in 1..Len(ps) |-> 0]
    /\ doc' = [w \in 1..Len(ps) |-> NoDoc]
    /\ calls' = [w \in 1..Len(ps) |-> << >>]
    /\ local' = [w \in 1..Len(ps) |-> << >>]
    /\ UNCHANGED << variant, ProxyAddress, MaxRetries, mu, results >>

\* The outcome of the crawl as the caller sees it.
CrawlOutcome == IF ret = "nil" THEN "crawlOk" ELSE "crawlErr"

\* Lines 167-171: a configuration error ends the process with code 1.
MainValidate ==
    /\ Running /\ mpc = "validate"
    /\ IF validateConfig # << >>
       THEN /\ exitCode' = 1
            /\ mpc' = "exited"
            /\ runLog' = << "configErr" >>
       ELSE /\ mpc' = "identify"
            /\ UNCHANGED << exitCode, runLog >>
    /\ UNCHANGED << configVars, outVars, apc, autoRuns, textVars, crawlVars >>

\* main calls extractEmails(ctx, pages, *proxyEnabled, *verbose), line 339.
MainStartCrawl ==
    /\ Running /\ mpc = "identify"
    /\ CrawlStart(MainPages, proxyEnabled)
    /\ mpc' = "crawl"
    /\ UNCHANGED << configVars, outVars, apc, exitCode, autoRuns, runLog, textVars >>

\* Lines 339-341: an error of extractEmails is logged and main goes on.
MainCrawlReturns ==
    /\ Running /\ mpc = "crawl" /\ cpc = "returned"
    /\ runLog' = Append(runLog, CrawlOutcome)
    /\ mpc' = "save"
    /\ UNCHANGED << configVars, outVars, apc, exitCode, autoRuns, textVars, crawlVars >>

\* Lines 343-347: saveResults(*outputFormat); an error ends the process
\* with code 1.
MainSave ==
    /\ Running /\ mpc = "save"
    /\ \E format \in Formats, io \in IOOutcomes :
          IF saveResults(format, io) # ""
          THEN /\ runLog' = Append(runLog, "saveErr")
               /\ exitCode' = 1
               /\ mpc' = "exited"
               /\ UNCHANGED files
          ELSE /\ runLog' = Append(runLog, "saveOk")
               /\ files' = Append(files, autoRuns)
               /\ mpc' = "savedb"
               /\ UNCHANGED exitCode
    /\ UNCHANGED << configVars, carried, apc, autoRuns, textVars, crawlVars >>

\* A database save whose failure ends the process like a file save's.
MainSaveDBFatal ==
    /\ Running /\ mpc = "savedb"
    /\ \E io \in IOOutcomes :
          IF saveResultsToDB(io) # ""
          THEN /\ runLog' = Append(runLog, "dbErr")
               /\ exitCode' = 1
               /\ mpc' = "exited"
          ELSE /\ runLog' = Append(runLog, "dbOk")
               /\ mpc' = "notify"
               /\ UNCHANGED exitCode
    /\ UNCHANGED << configVars, outVars, apc, autoRuns, textVars, crawlVars >>

\* Lines 349-352: saveResultsToDB(); an error is logged and main goes on.
MainSaveDB ==
    /\ Running /\ mpc = "savedb"
    /\ \E io \in IOOutcomes :
          runLog' = Append(runLog, IF saveResultsToDB(io) # "" THEN "dbErr" ELSE "dbOk")
    /\ mpc' = "notify"
    /\ UNCHANGED << configVars, outVars, apc, exitCode, autoRuns, textVars, crawlVars >>

\* Lines 354-359: with -m telegram the notification is sent, and an error
\* of it is logged; with another method nothing is sent.
MainNotify ==
    /\ Running /\ mpc = "notify"
    /\ \E notificationMethod \in { "telegram", "none" } :
          runLog' = Append(runLog, IF notificationMethod = "telegram"
                                   THEN "notify" ELSE "noNotify")
    /\ mpc' = "schedule"
    /\ UNCHANGED << configVars, outVars, apc, exitCode, autoRuns, textVars, crawlVars >>

\* Lines 361-364 and 720-736: with -a the cron job is registered and
\* started.
MainSchedule ==
    /\ Running /\ mpc = "schedule"
    /\ \E automation \in BOOLEAN : apc' = IF automation THEN "armed" ELSE "off"
    /\ mpc' = "return"
    /\ UNCHANGED << configVars, outVars, exitCode, autoRuns, runLog, textVars, crawlVars >>

\* Line 369: main returns and the process ends with code 0, whatever its
\* goroutines are doing.
MainReturn ==
    /\ Running /\ mpc = "return"
    /\ exitCode' = 0
    /\ mpc' = "exited"
    /\ UNCHANGED << configVars, outVars, apc, autoRuns, runLog, textVars, crawlVars >>

\* An automated run that begins by emptying the store.
CronFiresFreshStore ==
    /\ Running /\ apc = "armed"
    /\ autoRuns < MaxAutoRuns
    /\ CrawlStartEmptyStore(identifyTargetPages(AutoEngines, FALSE), TRUE)
    /\ apc' = "crawl"
    /\ autoRuns' = autoRuns + 1
    /\ runLog' = << >>
    /\ carried' = results
    /\ UNCHANGED << configVars, files, mpc, exitCode, textVars >>

\* The cron job fires (lines 722-727): runAutomatedSearch identifies its
\* pages and calls extractEmails with the proxy enabled (lines 740-750).
CronFires ==
    /\ Running /\ apc = "armed"
    /\ autoRuns < MaxAutoRuns
    /\ CrawlStart(identifyTargetPages(AutoEngines, FALSE), TRUE)
    /\ apc' = "crawl"
    /\ autoRuns' = autoRuns + 1
    /\ runLog' = << >>
    /\ carried' = results
    /\ UNCHANGED << configVars, files, mpc, exitCode, textVars >>

\* Lines 750-752: an error of extractEmails makes runAutomatedSearch return.
AutoCrawlReturns ==
    /\ Running /\ apc = "crawl" /\ cpc = "returned"
    /\ runLog' = Append(runLog, CrawlOutcome)
    /\ apc' = IF ret = "nil" THEN "save" ELSE "armed"
    /\ UNCHANGED << configVars, outVars, mpc, exitCode, autoRuns, textVars, crawlVars >>

\* Lines 754-756: saveResults("json"); an error makes it return.
AutoSave ==
    /\ Running /\ apc = "save"
    /\ \E io \in IOOutcomes :
          IF saveResults("json", io) # ""
          THEN /\ runLog' = Append(runLog, "saveErr")
               /\ apc' = "armed"
               /\ UNCHANGED files
          ELSE /\ runLog' = Append(runLog, "saveOk")
               /\ files' = Append(files, autoRuns)
               /\ apc' = "notify"
    /\ UNCHANGED << configVars, carried, mpc, exitCode, autoRuns, textVars, crawlVars >>

\* Lines 758-762: sendTelegramNotification(), then the job is over.
AutoNotify ==
    /\ Running /\ apc = "notify"
    /\ runLog' = Append(runLog, "notify")
    /\ apc' = "armed"
    /\ UNCHANGED << configVars, outVars, mpc, exitCode, autoRuns, textVars, crawlVars >>

\* The goroutines of the crawl run while the process does.  Neither caller
\* cancels the context of a crawl that is under way.
MainNext ==
    \/ MainValidate
    \/ MainStartCrawl
    \/ MainCrawlReturns
    \/ MainSave
    \/ MainSaveDB
    \/ MainNotify
    \/ MainSchedule
    \/ MainReturn
    \/ CronFires
    \/ AutoCrawlReturns
    \/ AutoSave
    \/ AutoNotify
    \/ Running /\ Tick
    \/ Running /\ Launch
    \/ Running /\ Join
    \/ Running /\ \E w \in Workers : ProxySetupFails(w)
    \/ Running /\ \E w \in Workers : Visit(w)
    \/ Running /\ \E w \in Workers : SendErr(w)
    \/ Running /\ \E w \in Workers : CollectorWait(w)
    \/ Running /\ \E w \in Workers : FetchFails(w)
    \/ Running /\ \E w \in Workers : RetryVisit(w)
    \/ Running /\ \E w \in Workers : \E d \in RunDocs : FetchSucceeds(w, d)
    \/ Running /\ \E w \in Workers : Lock(w)
    \/ Running /\ \E w \in Workers : AppendUnlock(w)

MainSpec == MainInit /\ [][MainNext]_vars

(***************************************************************************)
(* Helpers of the properties.                                              *)
(***************************************************************************)
\* The Results in the store whose Location is worker w's page.
ResultsOf(w) == SelectSeq(results, LAMBDA r : r.Location = wpage[w])

\* The store calls worker w's OnHTML callback has completed so far.
Appended(w) ==
    IF doc[w] = NoDoc THEN 0 ELSE Len(CallsTable[variant, doc[w]]) - Len(calls[w])

\* The Results those calls must have left in the store, in order.
ExpectedOf(w) ==
    [i \in 1..Appended(w) |->
        NewResult(variant, CallsTable[variant, doc[w]][i], wpage[w])]

RECURSIVE SumAppended(_)
SumAppended(n) == IF n = 0 THEN 0 ELSE Appended(n) + SumAppended(n - 1)

\* The errors of page `page` in a sequence of error values.
ErrorsOf(es, page) == SelectSeq(es, LAMBDA e : e.page = page)

\* extractEmails has returned by the join, not by the cancellation.
ReturnedAfterJoin == cpc = "returned" /\ ret # "ctxErr"

\* The emails a page yields: those the OnHTML callback extracts from the root
\* element, whose text and links are those of the whole page.
SeqSet(q) == { q[k] : k \in 1..Len(q) }

PageEmails(v, d) == UNION { SeqSet(c) : c \in SeqSet(OnHTML(v, d[1])) }

(***************************************************************************)
(* C1.  Without cancellation extractEmails launches exactly one worker for *)
(* each page of the list, the w-th worker bound to the w-th page; the      *)
(* WaitGroup counts exactly the running workers, so a retry inside a       *)
(* worker's collector never adds a launch.                                 *)
(***************************************************************************)
C1_OneWorkerPerPage ==
    /\ launched \in 0..Len(pages)
    /\ \A w \in Workers : (wpc[w] # "idle") <=> (w <= launched)
    /\ \A w \in Workers : w <= launched => wpage[w] = pages[w]
    /\ wg = Cardinality({ w \in Workers : wpc[w] \in { "run", "send", "cwait" } })
    /\ (~cancelled /\ cpc # "loop") => launched = Len(pages)

\* All pages of a two-page list were launched and one of them is on a retry.
C1_Witness ==
    /\ ~cancelled
    /\ Len(pages) >= 2
    /\ launched = Len(pages)
    /\ \E w \in Workers : fetchCount[w] >= 2

(***************************************************************************)
(* C2.  When extractEmails returns by the join, every launched worker has  *)
(* finished its fetching and extraction: no fetch of any page is in        *)
(* flight, backing off, or still storing Results.                          *)
(***************************************************************************)
C2_WorkersFinishedAtReturn ==
    ReturnedAfterJoin =>
        \A w \in Workers : fpc[w] \in { "none", "finished" }

(***************************************************************************)
(* C3.  A page whose every fetch failed contributes no Result and exactly  *)
(* one error, carrying the page's URL, to the aggregate error.             *)
(***************************************************************************)
C3_FailedPageOneError ==
    \A w \in Workers :
        (ReturnedAfterJoin /\ fpc[w] = "finished" /\ doc[w] = NoDoc) =>
            /\ ResultsOf(w) = << >>
            /\ Len(ErrorsOf(errorList, wpage[w])) = 1

(***************************************************************************)
(* C4.  For a page whose fetches all fail, fetch is invoked at most        *)
(* 1 + MaxRetries times.                                                   *)
(***************************************************************************)
C4_FetchesBounded ==
    \A w \in Workers : fetchCount[w] <= 1 + MaxRetries

(***************************************************************************)
(* C5.  Concurrent appends never lose an entry: at every moment the store  *)
(* holds, for each worker, exactly the Results of the store calls the      *)
(* worker has completed, each once and in the worker's order, and nothing  *)
(* else.                                                                   *)
(***************************************************************************)
C5_NoLostAppend ==
    /\ \A w \in Workers : ResultsOf(w) = ExpectedOf(w)
    /\ Len(results) = SumAppended(Len(pages))

\* Two workers have finished and their appends interleaved in the store.
C5_Witness ==
    /\ \A w \in Workers : fpc[w] = "finished"
    /\ Len(results) = 4
    /\ results[1].Location = results[3].Location
    /\ results[2].Location = results[4].Location
    /\ results[1].Location # results[2].Location

C7_NoLaunchAfterCancel ==
    [][cancelled =>
          /\ launched' = launched
          /\ (cpc = "loop" /\ cpc' # "loop") => ret' = "ctxErr"]_vars

(***************************************************************************)
(* C8.  After its fetch a page has exactly one Result in the store when    *)
(* it yielded an email, holding the union of its text and mailto emails,   *)
(* and none when it yielded no email.                                      *)
(***************************************************************************)
C8_OneResultPerPage ==
    \A w \in Workers :
        (fpc[w] = "finished" /\ doc[w] # NoDoc) =>
            IF PageEmails(variant, doc[w]) = {}
            THEN ResultsOf(w) = << >>
            ELSE /\ Len(ResultsOf(w)) = 1
                 /\ SeqSet(ResultsOf(w)[1].Emails) = PageEmails(variant, doc[w])

(***************************************************************************)
(* C9.  Each worker sends at most one error, the channel never holds more  *)
(* than its capacity, and a worker about to send always finds room, also   *)
(* after extractEmails has returned on cancellation.                       *)
(***************************************************************************)
C9_SendNeverBlocks ==
    /\ Len(errs) <= Len(pages)
    /\ \A w \in Workers : wpc[w] = "send" => CanSend
    /\ \A w \in Workers :
          w <= launched => Len(ErrorsOf(errs \o errorList, wpage[w])) <= 1

\* A worker is about to send after extractEmails returned the cancellation.
C9_Witness ==
    /\ ret = "ctxErr"
    /\ \E w \in Workers : wpc[w] = "send"

(***************************************************************************)
(* C10.  A worker whose proxy setup failed (proxy enabled, address set)    *)
(* fetches nothing, retries nothing, stores no Result, and its error is in *)
(* the aggregate error extractEmails returns after the join.               *)
(***************************************************************************)
C10_ProxyFailureIsFatal ==
    \A w \in Workers :
        werr[w] = "proxy" =>
            /\ proxyEnabled /\ ProxyAddress # ""
            /\ fpc[w] = "none" /\ fetchCount[w] = 0 /\ doc[w] = NoDoc
            /\ ResultsOf(w) = << >>
            /\ ReturnedAfterJoin =>
                  /\ ret = "multiple"
                  /\ ErrorsOf(errorList, wpage[w]) = << PageError(wpage[w], "proxy") >>

\* The aggregate error holds a proxy failure while a sibling stored Results.
C10_Witness ==
    /\ ret = "multiple"
    /\ \E w, v \in Workers :
          /\ werr[w] = "proxy"
          /\ ResultsOf(v) # << >>

(***************************************************************************)
(* C11.  When extractEmails returns by the join, it returns nil exactly    *)
(* when no worker sent an error; otherwise it returns one aggregate error  *)
(* whose list holds the message of every failed worker exactly once, in    *)
(* the order the workers sent them.                                        *)
(***************************************************************************)
FailedWorkers == { w \in Workers : werr[w] # "" }

C11_AggregateInSendOrder ==
    ReturnedAfterJoin =>
        /\ ret = "nil" <=> FailedWorkers = { }
        /\ ret = "multiple" <=> FailedWorkers # { }
        /\ errorList = sent
        /\ Len(errorList) = Cardinality(FailedWorkers)
        /\ \A w \in FailedWorkers :
              ErrorsOf(errorList, wpage[w]) = << PageError(wpage[w], werr[w]) >>

\* Two workers failed and the later page's worker sent first.
C11_Witness ==
    /\ ReturnedAfterJoin
    /\ Len(errorList) = 2
    /\ errorList[1].page = pages[2]
    /\ errorList[2].page = pages[1]

(***************************************************************************)
(* C12.  A worker's failure aborts nothing else: in a crawl that is not    *)
(* cancelled, once a worker has failed the loop still launches every       *)
(* remaining page and every worker, the siblings included, runs to its     *)
(* end, and every Result a sibling's finished collector extracted is in    *)
(* the store.                                                              *)
(***************************************************************************)
SiblingsUnaffected ==
    /\ launched = Len(pages)
    /\ \A v \in Workers :
          /\ wpc[v] = "done"
          /\ fpc[v] \in { "none", "finished", "backoff" }
          /\ fpc[v] = "finished" => ResultsOf(v) = ExpectedOf(v)

C15_LaunchesThrottledInOrder ==
    /\ ticks = launched + (IF tickPending THEN 1 ELSE 0)
    /\ launched <= ticks
    /\ cpc = "wait" => ticks >= Len(pages)
    /\ \A w \in Workers :
          IF w <= launched THEN wpage[w] = pages[w] ELSE wpc[w] = "idle"

\* Every page of a longest list took its own tick, and all the workers have
\* their fetches in flight at the same time.
C15_Witness ==
    /\ Len(pages) = MaxPages
    /\ launched = MaxPages /\ ticks = MaxPages
    /\ \A w \in Workers : fpc[w] = "inflight"

(***************************************************************************)
(* The email grammar, stated on the whole string: exactly one "@", before  *)
(* it one or more characters of [a-zA-Z0-9._%+-]; after it one or more     *)
(* characters of [a-zA-Z0-9.-], then the last "." of the string, then two  *)
(* or more letters.                                                        *)
(***************************************************************************)
Positions(s, c) == { k \in 1..Len(s) : s[k] = c }

Min(S) == CHOOSE x \in S : \A y \in S : x <= y

EmailGrammar(s) ==
    /\ Cardinality(Positions(s, "@")) = 1
    /\ LET at == Min(Positions(s, "@"))
           dotsAfter == { q \in Positions(s, ".") : q > at }
       IN  /\ at > 1
           /\ \A k \in 1..(at - 1) : s[k] \in LocalChars
           /\ dotsAfter # { }
           /\ LET dot == Max(dotsAfter)
              IN  /\ dot > at + 1
                  /\ \A k \in (at + 1)..(dot - 1) : s[k] \in DomainChars
                  /\ Len(s) - dot >= 2
                  /\ \A k \in (dot + 1)..Len(s) : s[k] \in Letters

Substrings(t) == { SubSeq(t, i, j) : i \in 1..Len(t), j \in 1..Len(t) }

(***************************************************************************)
(* C17.  extractEmailsFromText returns only substrings of the text that    *)
(* match the whole email grammar, and returns none of them twice           *)
(* (addresses that differ in case are different); on an empty text or a    *)
(* text without a match the result is empty.                               *)
(***************************************************************************)
C17_ExtractedAreValidAndUnique ==
    tpc = "extracted" =>
        /\ \A k \in 1..Len(found) :
              found[k] \in Substrings(input) /\ EmailGrammar(found[k])
        /\ \A j, k \in 1..Len(found) : j # k => found[j] # found[k]
        /\ (\A e \in Substrings(input) : ~EmailGrammar(e)) => found = << >>
        /\ input = << >> => found = << >>

\* A text that repeats an address and holds it once more in another case.
C17_Witness ==
    /\ tpc = "extracted"
    /\ input = Chars("a@b.cc, A@b.cc; a@b.cc")
    /\ found = << << "a","@","b",".","c","c" >>, << "A","@","b",".","c","c" >> >>

(***************************************************************************)
(* C18.  For a link whose href starts with "mailto:" the handler drops the *)
(* scheme and everything from the first "?" on, and hands the remainder to *)
(* the store exactly when it is a valid email: "mailto:x@y.com?subject=Hi" *)
(* gives x@y.com alone, a remainder that is not a valid email gives        *)
(* nothing.                                                                *)
(***************************************************************************)
BeforeQuery(t) ==
    IF Positions(t, "?") = { } THEN t
    ELSE SubSeq(t, 1, Min(Positions(t, "?")) - 1)

C18_MailtoStripsAndValidates ==
    tpc = "mailto" =>
        /\ found = IF EmailGrammar(BeforeQuery(input))
                   THEN << BeforeQuery(input) >> ELSE << >>
        /\ input = Chars("x@y.com?subject=Hi") => found = << Chars("x@y.com") >>

\* The link of the example: the address without its parameters was stored.
C18_Witness ==
    /\ tpc = "mailto"
    /\ input = Chars("x@y.com?subject=Hi")
    /\ found = << Chars("x@y.com") >>

(***************************************************************************)
(* C19.  The pattern as TestEmailRegex applies it, MatchString without     *)
(* anchors, accepts a string exactly when the whole string is a            *)
(* well-formed address: it rejects a string without "@", without a domain, *)
(* with a character outside the local-part set before the "@" or with more *)
(* than one "@", and accepts the well-formed ones.                         *)
(***************************************************************************)
C19_MatchStringIsWholeStringValidity ==
    tpc = "matched" => (matched <=> EmailGrammar(input))

(***************************************************************************)
(* Helpers of the pipeline properties.                                     *)
(***************************************************************************)
InLog(e) == \E i \in 1..Len(runLog) : runLog[i] = e

\* The log is main's until the cron job fires, the automated run's after.
MainRun == mpc # "off" /\ autoRuns = 0
AutoRun == autoRuns > 0

\* The current run has ended: main returned or exited, the job returned.
RunOver ==
    \/ MainRun /\ mpc \in { "return", "exited" }
    \/ AutoRun /\ apc = "armed"

NotifyStageReached == InLog("notify") \/ InLog("noNotify")

(***************************************************************************)
(* C13 as stated.  A run in which saveResults returned an error still      *)
(* reaches the notification stage before it ends.                          *)
(***************************************************************************)
C13_NotifyAfterSaveFailure ==
    (RunOver /\ InLog("saveErr")) => NotifyStageReached

(***************************************************************************)
(* C13, amended.  An error of saveResults ends the run before the          *)
(* notification: main exits with code 1 and runAutomatedSearch returns,    *)
(* neither having reached the notification stage.  It is an error of the   *)
(* database save in main that is only logged: main then goes on to the     *)
(* notification stage.                                                     *)
(***************************************************************************)
C13_SaveFailureEndsRun ==
    /\ InLog("saveErr") =>
          /\ ~NotifyStageReached
          /\ RunOver
          /\ MainRun => exitCode = 1
    /\ (MainRun /\ InLog("dbErr") /\ mpc \in { "schedule", "return", "exited" })
          => NotifyStageReached

\* The automated run's file save failed after a crawl without errors, and
\* the job returned without notifying.
C13_Witness ==
    /\ AutoRun /\ apc = "armed"
    /\ runLog = << "crawlOk", "saveErr" >>

(***************************************************************************)
(* C14.  In every caller, main and the automated daily run alike, a run    *)
(* whose crawl returned the aggregate error still goes on to the save      *)
(* stage instead of ending there.                                          *)
(***************************************************************************)
C14_CrawlErrorDoesNotEndRun ==
    (RunOver /\ InLog("crawlErr")) => (InLog("saveOk") \/ InLog("saveErr"))

(***************************************************************************)
(* C16.  The store is append-only: whatever step is taken, an append of a  *)
(* worker, the start or the end of a crawl, a save, a notification, in     *)
(* main or in the automated run, the store before the step is a prefix of  *)
(* the store after it.                                                     *)
(***************************************************************************)
IsPrefix(p, q) == Len(p) <= Len(q) /\ SubSeq(q, 1, Len(p)) = p

C16_StoreAppendOnly == [][IsPrefix(results, results')]_vars

\* The automated run has saved a store that begins with the Results of
\* main's run and goes on with Results of a page only it crawls.
C16_Witness ==
    /\ AutoRun /\ InLog("saveOk")
    /\ results # << >>
    /\ results[1].Location = SiteURLs[1]
    /\ \E k \in 2..Len(results) : results[k].Location = SiteURLs[2]

(***************************************************************************)
(* C20.  The configuration is validated before any crawl and never         *)
(* written afterwards: whenever a worker has been launched, by main's      *)
(* crawl or by the automated run's, the request timeout and the rate limit *)
(* are positive and the user agent is not empty; when the validation       *)
(* fails the process exits with code 1 and no worker is ever launched.     *)
(***************************************************************************)
ConfigValid == RequestTimeout > 0 /\ RateLimit > 0 /\ UserAgent # ""

C20_ValidatedBeforeCrawl ==
    [][ /\ UNCHANGED configVars
        /\ launched' > 0 => ConfigValid
        /\ ~ConfigValid =>
              /\ mpc' = "exited" /\ exitCode' = 1
              /\ launched' = 0 /\ pages' = << >> /\ autoRuns' = 0
      ]_vars

\* Under a valid configuration the automated run has launched both its
\* workers.
C20_Witness ==
    /\ ConfigValid
    /\ AutoRun /\ launched = 2

(***************************************************************************)
(* C21.  The mutex is held for the append step only.  At most one          *)
(* collector is between mu.Lock() and mu.Unlock(), and it is the one the   *)
(* mutex records; while a collector holds the mutex its request has        *)
(* ended, so it has no fetch in flight and is not sleeping before a retry, *)
(* and its worker goroutine is not fetching either; the mutex is free      *)
(* again as soon as the append is done.  Other workers go on fetching and  *)
(* backing off while the mutex is held.                                    *)
(***************************************************************************)
LockHolders == { w \in Workers : fpc[w] = "locked" }

C21_LockHeldForAppendOnly ==
    /\ Cardinality(LockHolders) <= 1
    /\ mu \in { 0 } \cup Workers
    /\ \A w \in Workers : (mu = w) <=> (w \in LockHolders)
    /\ \A w \in LockHolders :
          /\ fpc[w] \notin { "inflight", "backoff" }
          /\ fetchCount[w] = 0
          /\ wpc[w] \in { "done", "cwait" }
          /\ calls[w] # << >>
          /\ local[w] = results

\* One worker is appending under the mutex while the other worker's fetch is
\* in flight after a backoff.
C21_Witness ==
    /\ \E w, v \in Workers :
          /\ mu = w /\ fpc[w] = "locked"
          /\ fpc[v] = "inflight" /\ fetchCount[v] >= 2

(***************************************************************************)
(* C22.  In the retry sequence of a failing page the sleep before the      *)
(* retry numbered k, for k = 0, 1, ..., MaxRetries-1, lasts 2^k seconds:   *)
(* 1 second before the first retry, 2 before the second, 4 before the      *)
(* third.  The retry about to be made is numbered by the retries the       *)
(* sequence has made so far, one less than its fetches.                    *)
(***************************************************************************)
RetryNumber(w) == fetchCount[w] - 1

C22_DelaysDouble ==
    \A w \in Workers :
        (fpc[w] = "backoff" /\ RetryNumber(w) < MaxRetries) =>
            delay[w] = 2 ^ RetryNumber(w)

(***************************************************************************)
(* C23.  Cancellation is observed at the launch boundary only.  The step   *)
(* that cancels the context and the step by which extractEmails returns    *)
(* the cancellation error change nothing of the launched workers: their    *)
(* goroutines, their collectors' fetches and retries, the store, the       *)
(* WaitGroup and the error channel are as before.  After the cancellation, *)
(* and after that return, a launched worker that has not come to its end   *)
(* can still take its next step (fetch, retry, append, send its error),    *)
(* or, when it waits for the mutex, the holder of the mutex can.           *)
(***************************************************************************)
launchedVars == << workerVars, fetchVars, storeVars, wg, errs, sent >>

\* Worker w, or its collector, has a step left (the retry sequence is cut
\* off at MaxFetch fetches).
Unfinished(w) ==
    \/ wpc[w] \in { "run", "send", "cwait" }
    \/ fpc[w] \in { "inflight", "html", "locked" }
    \/ fpc[w] = "backoff" /\ fetchCount[w] < MaxFetch

C23_CancelLeavesWorkersAlone ==
    /\ [][ (cancelled' # cancelled \/ (ret # "ctxErr" /\ ret' = "ctxErr"))
              => UNCHANGED launchedVars ]_vars
    /\ [](cancelled =>
            \A w \in Workers :
                Unfinished(w) =>
                    IF fpc[w] = "html" /\ mu # 0
                    THEN ENABLED WorkerStep(mu)
                    ELSE ENABLED WorkerStep(w))

\* extractEmails has returned the cancellation error and the collector of
\* the worker launched before holds the mutex for its first append.
C23_Witness ==
    /\ ret = "ctxErr"
    /\ results = << >>
    /\ \E w \in Workers : fpc[w] = "locked" /\ mu = w

(***************************************************************************)
(* C24.  Every Result in the store is well formed: its email list is not   *)
(* empty and holds no email twice, every email of it passes isValidEmail,  *)
(* and its Location is the page of a launched worker whose fetch           *)
(* succeeded, the emails being emails of the document that worker fetched. *)
(* (The pages of a list are distinct, so the Location names the worker.)   *)
(***************************************************************************)
NoDuplicates(q) == \A j, k \in 1..Len(q) : j # k => q[j] # q[k]

\* The emails of every document, and those of the emails handed to the
\* store by some callback that pass isValidEmail, computed once.
PageEmailsTable == [v \in { "A", "B" }, d \in Docs |-> PageEmails(v, d)]

HandedLists == UNION { SeqSet(CallsTable[v, d]) : v \in { "A", "B" }, d \in Docs }

ValidHandedEmails ==
    { e \in UNION { SeqSet(c) : c \in HandedLists } : isValidEmail(e) }

C24_StoredResultsWellFormed ==
    \A k \in 1..Len(results) :
        /\ results[k].Emails # << >>
        /\ NoDuplicates(results[k].Emails)
        /\ \A i \in 1..Len(results[k].Emails) : results[k].Emails[i] \in ValidHandedEmails
        /\ \E w \in Workers :
              /\ w <= launched
              /\ results[k].Location = pages[w]
              /\ results[k].Location = wpage[w]
              /\ doc[w] # NoDoc
              /\ SeqSet(results[k].Emails) \subseteq PageEmailsTable[variant, doc[w]]

\* The store holds a Result of one page with the address its text repeats,
\* once, and a Result of the other page with the address of its mailto link.
C24_Witness ==
    \E j, k \in 1..Len(results) :
        /\ results[j].Location # results[k].Location
        /\ results[j].Emails = << << "a", "@", "b", ".", "c", "c" >> >>
        /\ results[k].Emails = << << "x", "@", "y", ".", "c", "c" >> >>

(***************************************************************************)
(* C25.  A crawl whose context is never cancelled, whose ticker keeps      *)
(* firing and whose goroutines keep running comes to its end:              *)
(* extractEmails returns, by the join, and stays returned.  By then the    *)
(* loop has launched every page, the WaitGroup is at zero, and the error   *)
(* channel has been closed and drained of everything the workers sent.     *)
(***************************************************************************)
ReturnedByJoin ==
    /\ cpc = "returned"
    /\ ret \in { "nil", "multiple" }
    /\ launched = Len(pages)
    /\ wg = 0
    /\ \A w \in Workers : wpc[w] = "done"
    /\ errs = << >>
    /\ errorList = sent

C25_ExtractEmailsReturns == <>[]ReturnedByJoin

\* extractEmails has returned from a crawl of a longest list in the build
\* whose workers wait for their collectors: one page gave Results, another
\* an error.
C25_Witness ==
    /\ ReturnedByJoin
    /\ variant = "B"
    /\ Len(pages) = MaxPages
    /\ results # << >>
    /\ errorList # << >>

(***************************************************************************)
(* C26.  The store is carried from run to run.  The step that starts an    *)
(* automated run leaves the store as it is, and the store is not empty     *)
(* then (main has saved it).  During the run the store still begins with   *)
(* everything it held at the start, and so it does at the steps where the  *)
(* run's saveResults writes the store to its file and where its            *)
(* notification is formatted from the store: both hold all Results of the  *)
(* earlier runs, followed by the run's own.                                *)
(***************************************************************************)
SaveStep == runLog' = Append(runLog, "saveOk") /\ files' = Append(files, autoRuns)

NotifyStep == runLog' = Append(runLog, "notify")

C26_StoreCarriedAcrossRuns ==
    /\ [][ autoRuns' # autoRuns =>
              /\ results' = results
              /\ results # << >>
              /\ carried' = results ]_vars
    /\ [][ (AutoRun /\ (SaveStep \/ NotifyStep)) =>
              /\ carried # << >>
              /\ IsPrefix(carried, results)
              /\ results' = results ]_vars
    /\ [](AutoRun => IsPrefix(carried, results) /\ carried # << >>)

\* The automated run has written its file and sent its notification with a
\* store that holds main's Results and, after them, Results of its own.
C26_Witness ==
    /\ AutoRun /\ apc = "armed"
    /\ runLog = << "crawlOk", "saveOk", "notify" >>
    /\ files = << 0, 1 >>
    /\ carried # << >>
    /\ Len(results) > Len(carried)

(***************************************************************************)
(* C27.  With an empty store saveResults returns an error and writes no    *)
(* file, and main then exits with code 1: the database save, the           *)
(* notification and the scheduling of the automation are not reached, and  *)
(* nothing runs afterwards.                                                *)
(***************************************************************************)
C27_EmptyStoreSaveIsFatal ==
    /\ [][ (mpc = "save" /\ results = << >>) =>
              /\ files' = files
              /\ mpc' # mpc =>
                    /\ mpc' = "exited" /\ exitCode' = 1
                    /\ runLog' = Append(runLog, "saveErr") ]_vars
    /\ [][ Running ]_vars
    /\ []((mpc = "exited" /\ exitCode = 1 /\ InLog("saveErr")) =>
              /\ files = << >>
              /\ ~InLog("dbOk") /\ ~InLog("dbErr")
              /\ ~NotifyStageReached
              /\ apc = "off" /\ autoRuns = 0)

\* The crawl returned nil with nothing in the store, and main exited with
\* code 1 at the save.
C27_Witness ==
    /\ mpc = "exited" /\ exitCode = 1
    /\ results = << >>
    /\ files = << >>
    /\ runLog = << "crawlOk", "saveErr" >>

====
